---- MODULE Spec2Model ----
(***************************************************************************)
(* Model of the concurrent, retrying HTTP runner shared by http_runner.py  *)
(* and http_runner_stdlib.py: main, run_concurrent_requests (fan-out, the  *)
(* thread pool, the as_completed loop, the aggregate output) and           *)
(* perform_request_with_retries (the retry loop, the two sleeps, the       *)
(* transport call and the per-target files).                               *)
(*                                                                         *)
(* A future is identified by its submission index f = 1, 2, ...; the       *)
(* per-future variables are sequences indexed by f.                        *)
(***************************************************************************)
EXTENDS Integers, Sequences, FiniteSets, TLC

\* ---- bounds of the model ----
MaxLines == 4
MaxRetries == 2
MaxConc == 2
MaxAttempts == 6
BackoffMs == 100
DelayMs == 50
MaxItemLen == 3
MaxPairs == 2
MaxNameLen == 2
MaxFileLines == 2

\* safe_filename keeps the first 128 characters
MaxFileName == 128

\* ---- values ----
None == "None"
Statuses == {200, 500}
\* str(exc) of an exception raised in attempt number k: the text and, so that
\* the messages of different attempts can be told apart, the attempt
TransportMsg(k) == <<"timed out", k>>
SaveMsg(k) == <<"permission denied", k>>
FaultMsg == <<"internal fault">>
UnknownError == <<"Unknown error">>
NoExcYet == <<>>
DefaultName == <<"r", "e", "q", "u", "e", "s", "t">>
SessionPath == "sessions.txt"
MissingPath == "missing.txt"
Elapsed == "elapsed"
RespHeaders == "response headers"
Content == "response content"

VARIABLES
    args,               \* the argparse.Namespace, fixed for the run
    base_params,        \* parse_key_value_pairs(args.param)
    base_cookies,       \* parse_key_value_pairs(args.cookie)
    base_headers,       \* parse_header_pairs(args.header)
    phase,              \* position of the dispatching (main) thread
    raising,            \* exception propagating out of the with-block, or None
    exit_code,          \* return value of main, or None
    names_and_sessions, \* the targets produced by fan-out
    future_to_name,     \* dict future -> name filled by the submit loop
    submitted,          \* number of executor.submit calls made
    pc,                 \* per future: position of its task
    attempt,            \* per future: local `attempt` of the retry loop
    last_exc,           \* per future: local `last_exc` of the retry loop
    headers,            \* per future: local `headers` of the task
    cookies,            \* per future: local `cookies` of the task
    future,             \* per future: None, a result or an exception
    trace,              \* per future: history of sleeps requested and transport calls made
    resp_status,        \* per future: status of the latest response of the transport, or None
    transport_failed,   \* per future: some transport call has raised
    yielded,            \* futures as_completed has handed to the loop body
    results,            \* the results list
    stdout,             \* console lines printed
    files,              \* file system: path -> content
    disk,               \* condition of the save directory during the run
    interrupted,        \* a KeyboardInterrupt has been delivered
    LOCK                \* holder of the console lock: "free" or "main"

vars == <<args, base_params, base_cookies, base_headers, phase, raising, exit_code, names_and_sessions, future_to_name,
          submitted, pc, attempt, last_exc, future, trace, resp_status,
          transport_failed, yielded, results, stdout, files, disk, interrupted,
          headers, cookies, LOCK>>

\* ---- strings ----

\* A str is the sequence of its characters; an optional value is <<>> (None)
\* or <<v>>.
Whitespace == {" ", "\t"}

Letters == {"a", "b", "c", "d", "e", "p", "q", "r", "s", "t", "u", "w", "X", "Z"}

Digits == {"1", "2", "7"}

\* str.isalnum() of one character
isalnum(ch) == ch \in Letters \cup Digits

RECURSIVE lstrip(_)
lstrip(s) == IF s # <<>> /\ Head(s) \in Whitespace THEN lstrip(Tail(s)) ELSE s

RECURSIVE rstrip(_)
rstrip(s) ==
    IF s # <<>> /\ s[Len(s)] \in Whitespace THEN rstrip(SubSeq(s, 1, Len(s) - 1)) ELSE s

\* str.strip()
Strip(line) == rstrip(lstrip(line))

\* sep in item
Contains(item, sep) == \E i \in DOMAIN item : item[i] = sep

\* item.split(sep, 1) of an item that contains sep: scan to the first sep
RECURSIVE SplitOnce(_, _)
SplitOnce(item, sep) ==
    IF Head(item) = sep THEN <<<<>>, Tail(item)>>
    ELSE LET rest == SplitOnce(Tail(item), sep)
         IN  <<<<Head(item)>> \o rest[1], rest[2]>>

\* ---- session file and fan-out ----

\* The i-th line of the session file: tokens with unsafe characters, blank
\* lines, surrounding whitespace and a repeated token.
LineAt(i) ==
    CASE i % 4 = 1 -> <<"a", "/", "b">>
      [] i % 4 = 2 -> <<" ">>
      [] i % 4 = 3 -> <<" ", "a", "_", "b", " ">>
      [] OTHER     -> <<"a", "/", "b">>

SessionFileOf(n) == [i \in 1..n |-> LineAt(i)]

NoToken == <<>>

SkipsLineNever(token) == FALSE

\* `if not token: continue`
SkipsLine(token) == token = <<>>

RECURSIVE FanOutLines(_)
FanOutLines(lines) ==
    IF lines = <<>> THEN <<>>
    ELSE LET token == Strip(Head(lines))
         IN  IF SkipsLine(token) THEN FanOutLines(Tail(lines))
             ELSE <<[name |-> token, session_value |-> token]>> \o FanOutLines(Tail(lines))

\* args.name is "" when --name is not given
FanOut(a, fs) ==
    IF a.session_file # None
    THEN FanOutLines(fs[<<a.session_file>>])
    ELSE <<[name |-> (IF a.name # <<>> THEN a.name ELSE DefaultName),
            session_value |-> NoToken]>>

KeepsChar(ch) == isalnum(ch) \/ ch \in {"-", "_", "."}

Min(a, b) == IF a <= b THEN a ELSE b

safe_filename_whole(value) ==
    [i \in 1..Len(value) |-> IF KeepsChar(value[i]) THEN value[i] ELSE "_"]

safe_filename(value) ==
    SubSeq([i \in 1..Len(value) |-> IF KeepsChar(value[i]) THEN value[i] ELSE "_"],
           1, Min(Len(value), MaxFileName))

MetaPath(name) == <<safe_filename(name), ".meta.json">>
BodyPath(name) == <<safe_filename(name), ".body">>

\* ---- arguments ----

\* Combinations of --backoff-ms, --delay-ms, --save-dir, --save-body and
\* --output: every pair of backoff and delay, every pair of save-dir and
\* save-body, with and without an aggregate output.
Profiles ==
    { [backoff_ms |-> BackoffMs, delay_ms |-> 0,
       save_dir |-> None,  save_body |-> FALSE, output |-> None],
      [backoff_ms |-> BackoffMs, delay_ms |-> DelayMs,
       save_dir |-> "out", save_body |-> TRUE,  output |-> "out.jsonl"],
      [backoff_ms |-> 0, delay_ms |-> DelayMs,
       save_dir |-> "out", save_body |-> FALSE, output |-> None],
      [backoff_ms |-> 0, delay_ms |-> 0,
       save_dir |-> None,  save_body |-> TRUE,  output |-> "out.jsonl"] }

\* Contents of the session file on disk
SessionFiles == {SessionFileOf(n) : n \in 0..MaxLines}

\* The file system before the run: the session file when the run names one
InitialFiles(sf) ==
    IF sf = SessionPath
    THEN {[p \in {<<SessionPath>>} |-> lines] : lines \in SessionFiles}
    ELSE {<<>>}

\* --param a=1 --param " a = 2 ": a repeated key and surrounding whitespace
DefaultParam == <<<<<<"a", "=", "1">>>>, <<<<" ", "a", " ", "=", " ", "2", " ">>>>>>

\* --header "X: 1", which --session-header-name X overrides
DefaultHeader == <<<<<<"X", ":", " ", "1">>>>>>

\* The namespace of a run with the default request options
RunArgs(c, r, p, sf) ==
    [concurrency  |-> c,
     retries      |-> r,
     backoff_ms   |-> p.backoff_ms,
     delay_ms     |-> p.delay_ms,
     save_dir     |-> p.save_dir,
     save_body    |-> p.save_body,
     output       |-> p.output,
     session_file |-> sf,
     param        |-> DefaultParam,
     cookie       |-> <<>>,
     header       |-> DefaultHeader,
     json         |-> <<>>,
     data         |-> <<>>,
     name         |-> <<>>,
     session_header_name |-> <<"X">>,
     session_cookie_name |-> <<"a">>]

\* One target, one attempt, no sleeps: without and with a save directory
Light == RunArgs(1, 0, [backoff_ms |-> 0, delay_ms |-> 0, save_dir |-> None,
                        save_body |-> FALSE, output |-> None], None)

LightSave == RunArgs(1, 0, [backoff_ms |-> 0, delay_ms |-> 0, save_dir |-> "out",
                            save_body |-> TRUE, output |-> None], None)

\* One target, one retry, both sleeps, every file
Heavy == RunArgs(1, 1, [backoff_ms |-> BackoffMs, delay_ms |-> DelayMs, save_dir |-> "out",
                        save_body |-> TRUE, output |-> "out.jsonl"], None)

\* Request options main rejects: an entry without separator, both body sources
MalformedArgs ==
    { [Light EXCEPT !.param = <<<<<<"a">>>>>>],
      [Light EXCEPT !.json = <<<<"{", "}">>>>, !.data = <<<<"a">>>>] }

ArgsSet ==
    { RunArgs(c, r, p, sf) :
      c \in 0..MaxConc, r \in -1..MaxRetries, p \in Profiles,
      sf \in {None, SessionPath, MissingPath} } \cup MalformedArgs

\* The run makes at most MaxAttempts transport calls.
WithinWork(a, fs) ==
    a.session_file = SessionPath =>
        Len(FanOutLines(fs[<<SessionPath>>])) * (a.retries + 1) <= MaxAttempts

\* ---- records ----

SuccessRecord(name, status) ==
    [name |-> name, status |-> status, elapsed_ms |-> Elapsed,
     response_headers |-> RespHeaders]

ErrorRecordWithStatus(name, message) == [name |-> name, error |-> message, status |-> 0]

ErrorRecord(name, message) == [name |-> name, error |-> message]

IsError(rec) == "error" \in DOMAIN rec

Pending == [kind |-> "pending"]
Returned(rec) == [kind |-> "result", value |-> rec]
Raised(exc) == [kind |-> "exception", value |-> exc]

\* An exception object: its class and str(exc)
Exc(cls, message) == [cls |-> cls, message |-> message]

FaultExc == Exc("RuntimeError", FaultMsg)
NoExc == Exc("None", <<>>)
KeyboardInterrupt == Exc("KeyboardInterrupt", <<>>)

Ev(e, v) == [ev |-> e, v |-> v]

\* ---- parse_key_value_pairs, parse_header_pairs, parse_body ----

\* What a call does: return a value or raise an exception
Ok(v) == [raised |-> FALSE, value |-> v]
Err(exc) == [raised |-> TRUE, exc |-> exc]

InvalidPair(item, why) == Exc("ValueError", <<"Invalid pair", item, why>>)
InvalidHeader(item, why) == Exc("ValueError", <<"Invalid header", item, why>>)

StoreFirst(result, key, value) ==
    [k \in DOMAIN result \cup {key} |-> IF k \in DOMAIN result THEN result[k] ELSE value]

\* result[key] = value
Store(result, key, value) ==
    [k \in DOMAIN result \cup {key} |-> IF k = key THEN value ELSE result[k]]

KeyIsEmptyNever(key) == FALSE

\* `not key`
KeyIsEmpty(key) == key = <<>>

\* The loop over the remaining items with the dict built so far; an item is
\* <<>> (None) or <<text>>.
RECURSIVE ParsePairsFrom(_, _, _)
ParsePairsFrom(pairs, sep, result) ==
    IF pairs = <<>> THEN Ok(result)
    ELSE IF Head(pairs) = <<>> THEN ParsePairsFrom(Tail(pairs), sep, result)
    ELSE LET item == Head(pairs)[1]
         IN  IF ~Contains(item, sep) THEN Err(InvalidPair(item, "Expected format key=value"))
             ELSE LET kv == SplitOnce(item, sep)
                      key == Strip(kv[1])
                      value == Strip(kv[2])
                  IN  IF KeyIsEmpty(key) THEN Err(InvalidPair(item, "Key is empty"))
                      ELSE ParsePairsFrom(Tail(pairs), sep, Store(result, key, value))

parse_key_value_pairs(pairs, sep) == ParsePairsFrom(pairs, sep, <<>>)

\* `":" not in item` raises TypeError when item is None
RECURSIVE ParseHeadersFrom(_, _)
ParseHeadersFrom(pairs, result) ==
    IF pairs = <<>> THEN Ok(result)
    ELSE IF Head(pairs) = <<>>
    THEN Err(Exc("TypeError", <<"argument of type 'NoneType' is not iterable">>))
    ELSE LET item == Head(pairs)[1]
         IN  IF ~Contains(item, ":") THEN Err(InvalidHeader(item, "Expected format 'Name: Value'"))
             ELSE LET nv == SplitOnce(item, ":")
                      name == Strip(nv[1])
                      value == Strip(nv[2])
                  IN  IF KeyIsEmpty(name) THEN Err(InvalidHeader(item, "Name is empty"))
                      ELSE ParseHeadersFrom(Tail(pairs), Store(result, name, value))

parse_header_pairs(pairs) == ParseHeadersFrom(pairs, <<>>)

\* json.loads accepts the text, for the texts that occur
IsJson(text) == text \in {<<"{", "}">>, <<"1">>}

BothBodiesAllowed(a) == FALSE

\* args.json is not None and args.data is not None
BothBodies(a) == a.json # <<>> /\ a.data # <<>>

\* The body sources are inline texts, none of them the path of a file.
parse_body(a) ==
    IF BothBodies(a)
    THEN Err(Exc("ValueError", <<"Provide either --json or --data, not both">>))
    ELSE IF a.json # <<>> /\ ~IsJson(a.json[1])
    THEN Err(Exc("ValueError", <<"--json is not valid JSON", a.json[1], "">>))
    ELSE Ok(<<a.data, a.json>>)

\* ---- perform_request_with_retries ----

LoopContinuesStrict(a, r) == a < r

LoopContinues(a, r) == a <= r

BackoffApplies(a, base) == a > 0 /\ base > 0

BackoffDelayEarly(base, a) == base * 2 ^ a

BackoffDelay(base, a) == base * 2 ^ (a - 1)

PacingApplies(d) == d > 0

AfterBackoffFirstOnly(a, tr) ==
    IF a = 0 /\ PacingApplies(args.delay_ms)
    THEN [pc |-> "pacing", trace |-> Append(tr, Ev("pace", args.delay_ms))]
    ELSE [pc |-> "transport", trace |-> Append(tr, Ev("send", a))]

\* After the backoff sleep: the pacing sleep if configured, else the transport call.
AfterBackoff(a, tr) ==
    IF PacingApplies(args.delay_ms)
    THEN [pc |-> "pacing", trace |-> Append(tr, Ev("pace", args.delay_ms))]
    ELSE [pc |-> "transport", trace |-> Append(tr, Ev("send", a))]

HandleKeepFirst(prev, exc) == IF prev = NoExcYet THEN exc ELSE prev

\* except Exception as exc: last_exc = exc
Handle(prev, exc) == exc

LastMessage(exc) == IF exc # NoExcYet THEN exc ELSE UnknownError

\* The loop test with attempt = a and last_exc = exc: the next blocking call of
\* the task, or its return once the loop has ended.  The frame's locals are
\* gone once the function has returned.
LoopHead(name, a, exc, tr) ==
    IF LoopContinues(a, args.retries)
    THEN IF BackoffApplies(a, args.backoff_ms)
         THEN [pc |-> "backoff", attempt |-> a, last_exc |-> exc, future |-> Pending,
               trace |-> Append(tr, Ev("backoff", BackoffDelay(args.backoff_ms, a)))]
         ELSE [pc |-> AfterBackoff(a, tr).pc, attempt |-> a, last_exc |-> exc,
               future |-> Pending, trace |-> AfterBackoff(a, tr).trace]
    ELSE [pc |-> "finished", attempt |-> 0, last_exc |-> NoExcYet,
          future |-> Returned(ErrorRecord(name, LastMessage(exc))), trace |-> tr]

Futures == 1..submitted

\* The name argument the task of future f was submitted with
TaskName(f) == names_and_sessions[f].name

InjectIfAbsent(dict, key, token) ==
    IF token # <<>> /\ key # <<>> THEN StoreFirst(dict, key, token) ELSE dict

\* if session_value: if session_header_name: headers[session_header_name] = session_value
Inject(dict, key, token) ==
    IF token # <<>> /\ key # <<>> THEN Store(dict, key, token) ELSE dict

\* headers = dict(base_headers) and the injection of the session value
TaskHeaders(f) ==
    Inject(base_headers, args.session_header_name, names_and_sessions[f].session_value)

\* cookies = dict(base_cookies) and the injection of the session value
TaskCookies(f) ==
    Inject(base_cookies, args.session_cookie_name, names_and_sessions[f].session_value)

SharedAliased(shared, written) == written

\* The dict passed to every task after one task has written to dict(shared):
\* the write went to the copy
SharedAfterWrite(shared, written) == shared

\* A local dict of the frame: built when the task starts, kept while it runs,
\* gone once the function has returned
FrameDict(f, n, fresh, kept) ==
    IF n.pc = "finished" THEN <<>>
    ELSE IF pc[f] = "queued" THEN fresh
    ELSE kept

SetFrame(f, n) ==
    /\ pc' = [pc EXCEPT ![f] = n.pc]
    /\ attempt' = [attempt EXCEPT ![f] = n.attempt]
    /\ last_exc' = [last_exc EXCEPT ![f] = n.last_exc]
    /\ future' = [future EXCEPT ![f] = n.future]
    /\ trace' = [trace EXCEPT ![f] = n.trace]
    /\ headers' = [headers EXCEPT ![f] = FrameDict(f, n, TaskHeaders(f), headers[f])]
    /\ cookies' = [cookies EXCEPT ![f] = FrameDict(f, n, TaskCookies(f), cookies[f])]

WaitsForLockHeld == LOCK # "free"

\* perform_request_with_retries never acquires LOCK: no step of a worker
\* waits for it
WaitsForLock == FALSE

Active(f) == pc[f] \in {"backoff", "pacing", "transport"}

NumActive == Cardinality({f \in Futures : Active(f)})

\* The work queue of the pool is first-in first-out.
QueueHead(f) == pc[f] = "queued" /\ \A g \in Futures : g < f => pc[g] # "queued"

WorkerFreeOffByOne == NumActive <= args.concurrency

WorkerFree == NumActive < args.concurrency

PoolAlive == phase \in {"pool", "shutdown"}

\* An idle worker takes the next work item and runs the task up to its first
\* blocking call.
StartTask(f) ==
    /\ PoolAlive
    /\ QueueHead(f)
    /\ WorkerFree
    /\ SetFrame(f, LoopHead(TaskName(f), 0, NoExcYet, trace[f]))
    /\ base_headers' = SharedAfterWrite(base_headers, TaskHeaders(f))
    /\ base_cookies' = SharedAfterWrite(base_cookies, TaskCookies(f))
    /\ UNCHANGED <<args, base_params,
                   phase, raising, exit_code, names_and_sessions,
                   future_to_name, submitted, resp_status, transport_failed,
                   yielded, results, stdout, files, disk, interrupted,
                   LOCK>>

\* The task raises before it enters the retry loop: the pool stores the
\* exception in the future.
TaskFaults(f) ==
    /\ PoolAlive
    /\ QueueHead(f)
    /\ WorkerFree
    /\ pc' = [pc EXCEPT ![f] = "finished"]
    /\ future' = [future EXCEPT ![f] = Raised(FaultExc)]
    /\ UNCHANGED <<args, base_params, base_cookies, base_headers,
                   phase, raising, exit_code, names_and_sessions,
                   future_to_name, submitted, attempt, last_exc, trace,
                   resp_status, transport_failed, yielded, results,
                   stdout, files, disk, interrupted,
                   headers, cookies, LOCK>>

BackoffWakes(f) ==
    /\ f \in Futures
    /\ pc[f] = "backoff"
    /\ ~WaitsForLock
    /\ pc' = [pc EXCEPT ![f] = AfterBackoff(attempt[f], trace[f]).pc]
    /\ trace' = [trace EXCEPT ![f] = AfterBackoff(attempt[f], trace[f]).trace]
    /\ UNCHANGED <<args, base_params, base_cookies, base_headers,
                   phase, raising, exit_code, names_and_sessions,
                   future_to_name, submitted, attempt, last_exc, future,
                   resp_status, transport_failed, yielded, results,
                   stdout, files, disk, interrupted,
                   headers, cookies, LOCK>>

PacingWakes(f) ==
    /\ f \in Futures
    /\ pc[f] = "pacing"
    /\ ~WaitsForLock
    /\ pc' = [pc EXCEPT ![f] = "transport"]
    /\ trace' = [trace EXCEPT ![f] = Append(trace[f], Ev("send", attempt[f]))]
    /\ UNCHANGED <<args, base_params, base_cookies, base_headers,
                   phase, raising, exit_code, names_and_sessions,
                   future_to_name, submitted, attempt, last_exc, future,
                   resp_status, transport_failed, yielded, results,
                   stdout, files, disk, interrupted,
                   headers, cookies, LOCK>>

\* The transport call raises: the except clause records the exception and
\* counts the attempt.
TransportFails(f) ==
    /\ f \in Futures
    /\ pc[f] = "transport"
    /\ ~WaitsForLock
    /\ SetFrame(f, LoopHead(TaskName(f), attempt[f] + 1,
                            Handle(last_exc[f], TransportMsg(attempt[f])), trace[f]))
    /\ transport_failed' = [transport_failed EXCEPT ![f] = TRUE]
    /\ UNCHANGED <<args, base_params, base_cookies, base_headers,
                   phase, raising, exit_code, names_and_sessions,
                   future_to_name, submitted, resp_status, yielded, results,
                   stdout, files, disk, interrupted,
                   LOCK>>

Partial == "part of the response content"

\* The conditions of the save directory: writable; os.makedirs or the open of
\* the meta file raising OSError; the open of the body file raising OSError;
\* the body file opened and f.write raising OSError (no space left).
DiskConditions(a) ==
    IF a.save_dir = None THEN {"writable"}
    ELSE {"writable", "meta fails"}
         \cup (IF a.save_body THEN {"body fails", "body write fails"} ELSE {})

\* What happens to the files of one response.
SaveResult ==
    IF args.save_dir = None THEN "not saved"
    ELSE IF disk = "writable" THEN "saved"
    ELSE disk

MetaWritten(saved) == saved \in {"saved", "body fails", "body write fails"}

BodyWritten(saved) == saved = "saved" /\ args.save_body

\* open(body_path, "wb") has created the file and the write was cut short
BodyCut(saved) == saved = "body write fails"

SaveRaises(saved) == saved \in {"meta fails", "body fails", "body write fails"}

WriteFile(fs, path, content) ==
    [p \in DOMAIN fs \cup {path} |-> IF p = path THEN content ELSE fs[p]]

FilesAfterSave(fs, name, rec, saved) ==
    LET withMeta == IF MetaWritten(saved) THEN WriteFile(fs, MetaPath(name), rec) ELSE fs
    IN  IF BodyWritten(saved) THEN WriteFile(withMeta, BodyPath(name), Content)
        ELSE IF BodyCut(saved) THEN WriteFile(withMeta, BodyPath(name), Partial)
        ELSE withMeta

\* The transport call returns a response: the record is built, the files are
\* written when a save directory is configured, and the record is returned;
\* an exception of the file system is handled by the same except clause.
TransportResponds(f, status) ==
    /\ f \in Futures
    /\ pc[f] = "transport"
    /\ ~WaitsForLock
    /\ resp_status' = [resp_status EXCEPT ![f] = <<status>>]
    /\ files' = FilesAfterSave(files, TaskName(f),
                               SuccessRecord(TaskName(f), status), SaveResult)
    /\ IF SaveRaises(SaveResult)
       THEN SetFrame(f, LoopHead(TaskName(f), attempt[f] + 1,
                                 Handle(last_exc[f], SaveMsg(attempt[f])), trace[f]))
       ELSE SetFrame(f, [pc |-> "finished", attempt |-> 0, last_exc |-> NoExcYet,
                         future |-> Returned(SuccessRecord(TaskName(f), status)),
                         trace |-> trace[f]])
    /\ UNCHANGED <<args, base_params, base_cookies, base_headers,
                   phase, raising, exit_code, names_and_sessions,
                   future_to_name, submitted, transport_failed, yielded, results,
                   stdout, disk, interrupted,
                   LOCK>>

\* ---- run_concurrent_requests and main ----

\* The entry of main: nothing parsed, no pool, nothing printed
Started ==
    /\ phase = "start"
    /\ base_params = <<>>
    /\ base_cookies = <<>>
    /\ base_headers = <<>>
    /\ raising = NoExc
    /\ exit_code = <<>>
    /\ names_and_sessions = <<>>
    /\ future_to_name = <<>>
    /\ submitted = 0
    /\ pc = <<>>
    /\ attempt = <<>>
    /\ last_exc = <<>>
    /\ future = <<>>
    /\ trace = <<>>
    /\ resp_status = <<>>
    /\ transport_failed = <<>>
    /\ yielded = {}
    /\ results = <<>>
    /\ stdout = <<>>
    /\ interrupted = FALSE
    /\ headers = <<>>
    /\ cookies = <<>>
    /\ LOCK = "free"

Init ==
    /\ args \in ArgsSet
    /\ files \in InitialFiles(args.session_file)
    /\ WithinWork(args, files)
    /\ disk \in DiskConditions(args)
    /\ Started

\* ---- a wide range of request options and names ----

TextChars == {"a", "=", ":", " "}

\* The texts of at most n characters over a set of characters
Texts(chars, n) == UNION {[1..k -> chars] : k \in 0..n}

\* The lists of at most n entries of a set
Lists(entries, n) == UNION {[1..k -> entries] : k \in 0..n}

\* Entries of --param and --cookie: a repeated key, a separator in the value,
\* surrounding whitespace, no separator, an empty key, blank, empty and null
PairEntries ==
    { <<<<"a", "=", "1">>>>, <<<<"a", "=", "2">>>>, <<<<"b", "=", "1", "=", "2">>>>,
      <<<<" ", "a", " ", "=", " ", "1", " ">>>>, <<<<"a">>>>, <<<<"=", "1">>>>,
      <<<<" ">>>>, <<<<>>>>, <<>> }

\* Entries of --header, of the same kinds
HeaderEntries ==
    { <<<<"X", ":", " ", "1">>>>, <<<<"X", ":", "2">>>>, <<<<"Z", ":", "a", ":", "b">>>>,
      <<<<" ", "X", " ", ":", "1">>>>, <<<<"X">>>>, <<<<":", "1">>>>,
      <<<<" ">>>>, <<>> }

\* Every single short text, and the lists of the entries above
PairLists ==
    {<<<<t>>>> : t \in Texts(TextChars, MaxItemLen)} \cup Lists(PairEntries, MaxPairs)

HeaderLists ==
    {<<<<t>>>> : t \in Texts(TextChars, MaxItemLen)} \cup Lists(HeaderEntries, MaxPairs)

\* --json and --data: absent, JSON, not JSON
BodySources == {<<>>, <<<<"{", "}">>>>, <<<<"{">>>>}

NameChars == {"a", "Z", "7", "-", "_", ".", "/", "\\", " "}

Traversal ==
    <<".", ".", "/", ".", ".", "/", "e", "t", "c", "/", "p", "a", "s", "s", "w", "d">>

\* Names around the length safe_filename truncates at
LongNames ==
    { [i \in 1..n |-> IF i % 3 = 0 THEN "/" ELSE "a"] :
      n \in (MaxFileName - 1)..(MaxFileName + 2) }

Names == Texts(NameChars, MaxNameLen) \cup LongNames \cup {Traversal}

\* Lines of a session file: tokens, surrounding whitespace, blank and empty
LineTexts == {<<"a">>, <<" ", "b", " ">>, <<"a", "/", "b">>, <<" ">>, <<>>}

\* One target at a time over every short session file
Fan == [Light EXCEPT !.session_file = SessionPath]

\* Two workers over the session file a/b, blank, a_b with each combination of
\* --session-header-name (absent, a configured header, another header) and
\* --session-cookie-name (absent, a configured cookie, another cookie)
InjectArgs ==
    { [Light EXCEPT !.session_file = SessionPath, !.concurrency = MaxConc,
                    !.cookie = DefaultParam, !.output = "out.jsonl",
                    !.session_header_name = h, !.session_cookie_name = c] :
      h \in {<<>>, <<"X">>, <<"Z">>}, c \in {<<>>, <<"a">>, <<"b">>} }

\* The aggregate output of an earlier run
OldOutput == <<"old line">>

\* The file system before a run of the wide range
WideFiles(a) ==
    IF a.session_file # SessionPath THEN {<<>>}
    ELSE IF a = Fan
    THEN {[p \in {<<SessionPath>>} |-> lines] : lines \in Lists(LineTexts, MaxFileLines)}
    ELSE { [p \in {<<SessionPath>>} |-> SessionFileOf(3)],
           [p \in {<<SessionPath>>, <<"out.jsonl">>} |->
               IF p = <<SessionPath>> THEN SessionFileOf(3) ELSE OldOutput] }

WideArgs ==
    {[Light EXCEPT !.param = l] : l \in PairLists}
    \cup {[Light EXCEPT !.cookie = l] : l \in PairLists}
    \cup {[Light EXCEPT !.header = l] : l \in HeaderLists}
    \cup {[Light EXCEPT !.json = j, !.data = d] : j \in BodySources, d \in BodySources}
    \cup {[Light EXCEPT !.session_file = MissingPath]}
    \cup {[LightSave EXCEPT !.name = n] : n \in Names}
    \cup {Fan}
    \cup InjectArgs
    \cup {Heavy}

WideInit ==
    /\ args \in WideArgs
    /\ files \in WideFiles(args)
    /\ disk \in DiskConditions(args)
    /\ Started

\* os.path.isfile(args.session_file) is false
SessionFileMissing(a, fs) == a.session_file # None /\ <<a.session_file>> \notin DOMAIN fs

\* ThreadPoolExecutor(max_workers=...) raises ValueError unless max_workers > 0
PoolRejects(a) == a.concurrency <= 0

ExitCodeAlwaysOne(exc) == 1

\* except KeyboardInterrupt: return 130; except Exception: return 1
ExitCodeFor(exc) == IF exc.cls = "KeyboardInterrupt" THEN 130 ELSE 1

ExitLine(exc) ==
    IF exc.cls = "KeyboardInterrupt" THEN <<"Interrupted">> ELSE <<"ERROR", exc.message>>

\* The exception raised between the entry of run_concurrent_requests and the
\* with-statement, the checks in the order of the code; NoExc when none is.
RaisedBeforePool(a, fs) ==
    IF parse_key_value_pairs(a.param, "=").raised THEN parse_key_value_pairs(a.param, "=").exc
    ELSE IF parse_key_value_pairs(a.cookie, "=").raised
    THEN parse_key_value_pairs(a.cookie, "=").exc
    ELSE IF parse_header_pairs(a.header).raised THEN parse_header_pairs(a.header).exc
    ELSE IF parse_body(a).raised THEN parse_body(a).exc
    ELSE IF SessionFileMissing(a, fs)
    THEN Exc("FileNotFoundError", <<"Session file not found">>)
    ELSE IF PoolRejects(a) THEN Exc("ValueError", <<"max_workers must be greater than 0">>)
    ELSE NoExc

\* The value a parser has returned, {} when the call raised or was not reached
Parsed(call, reached) == IF reached /\ ~call.raised THEN call.value ELSE <<>>

\* From the entry of run_concurrent_requests to the creation of the pool: the
\* options are parsed, the targets are listed and the pool is created; an
\* exception ends main with its exit code.
Prepare ==
    /\ phase = "start"
    /\ LET parsed_params == parse_key_value_pairs(args.param, "=")
           parsed_cookies == parse_key_value_pairs(args.cookie, "=")
           parsed_headers == parse_header_pairs(args.header)
           body == parse_body(args)
           exc == RaisedBeforePool(args, files)
           parsed == /\ ~parsed_params.raised /\ ~parsed_cookies.raised
                     /\ ~parsed_headers.raised /\ ~body.raised
       IN  /\ base_params' = Parsed(parsed_params, TRUE)
           /\ base_cookies' = Parsed(parsed_cookies, ~parsed_params.raised)
           /\ base_headers' = Parsed(parsed_headers,
                                     ~parsed_params.raised /\ ~parsed_cookies.raised)
           /\ names_and_sessions' =
                  IF parsed /\ ~SessionFileMissing(args, files)
                  THEN FanOut(args, files) ELSE names_and_sessions
           /\ IF exc # NoExc
              THEN /\ phase' = "done"
                   /\ exit_code' = <<ExitCodeFor(exc)>>
                   /\ stdout' = Append(stdout, ExitLine(exc))
              ELSE /\ phase' = "pool"
                   /\ UNCHANGED <<exit_code, stdout>>
    /\ UNCHANGED <<args, raising, future_to_name, submitted, pc, attempt, last_exc,
                   future, trace, resp_status, transport_failed,
                   yielded, results, files, disk, interrupted, headers, cookies, LOCK>>

RegisterByName(map, f, name) ==
    [g \in {h \in DOMAIN map : map[h] # name} \cup {f} |-> IF g = f THEN name ELSE map[g]]

\* future_to_name[future] = name
RegisterFuture(map, f, name) ==
    [g \in DOMAIN map \cup {f} |-> IF g = f THEN name ELSE map[g]]

AllSubmitted == submitted = Len(names_and_sessions)

\* One iteration of the submit loop.
Submit ==
    /\ phase = "pool"
    /\ ~AllSubmitted
    /\ submitted' = submitted + 1
    /\ future_to_name' = RegisterFuture(future_to_name, submitted + 1,
                                        names_and_sessions[submitted + 1].name)
    /\ pc' = Append(pc, "queued")
    /\ attempt' = Append(attempt, 0)
    /\ last_exc' = Append(last_exc, NoExcYet)
    /\ headers' = Append(headers, <<>>)
    /\ cookies' = Append(cookies, <<>>)
    /\ future' = Append(future, Pending)
    /\ trace' = Append(trace, <<>>)
    /\ resp_status' = Append(resp_status, <<>>)
    /\ transport_failed' = Append(transport_failed, FALSE)
    /\ UNCHANGED <<args, base_params, base_cookies, base_headers,
                   phase, raising, exit_code, names_and_sessions, yielded,
                   results, stdout, files, disk, interrupted,
                   LOCK>>

CaughtOnlyTransport(exc) == exc.cls = "TransportError"

\* except Exception around future.result()
CaughtAtDispatch(exc) == exc.cls # "BaseException"

ConsoleLine(name, result) ==
    IF IsError(result) THEN <<"[!]", name, result.error>>
    ELSE <<"[+]", name, result.status, result.elapsed_ms>>

\* One iteration of the as_completed loop: a finished future not yet yielded.
Collect(f) ==
    /\ phase = "pool"
    /\ AllSubmitted
    /\ f \in DOMAIN future_to_name \ yielded
    /\ future[f] # Pending
    /\ yielded' = yielded \cup {f}
    /\ IF future[f].kind = "exception" /\ ~CaughtAtDispatch(future[f].value)
       THEN /\ phase' = "shutdown"
            /\ raising' = future[f].value
            /\ UNCHANGED <<results, stdout>>
       ELSE LET result == IF future[f].kind = "exception"
                          THEN ErrorRecord(future_to_name[f], future[f].value.message)
                          ELSE future[f].value
            IN  /\ results' = Append(results, result)
                /\ stdout' = Append(stdout, ConsoleLine(future_to_name[f], result))
                /\ UNCHANGED <<phase, raising>>
    /\ UNCHANGED <<args, base_params, base_cookies, base_headers,
                   exit_code, names_and_sessions, future_to_name, submitted,
                   pc, attempt, last_exc, future, trace, resp_status,
                   transport_failed, files, disk, interrupted,
                   headers, cookies, LOCK>>

\* The as_completed loop up to `with LOCK:`: the result of a finished future is
\* appended to results and the main thread takes the console lock.
Receive(f) ==
    /\ phase = "pool"
    /\ LOCK = "free"
    /\ AllSubmitted
    /\ f \in DOMAIN future_to_name \ yielded
    /\ future[f] # Pending
    /\ yielded' = yielded \cup {f}
    /\ IF future[f].kind = "exception" /\ ~CaughtAtDispatch(future[f].value)
       THEN /\ phase' = "shutdown"
            /\ raising' = future[f].value
            /\ UNCHANGED <<results, LOCK>>
       ELSE LET result == IF future[f].kind = "exception"
                          THEN ErrorRecord(future_to_name[f], future[f].value.message)
                          ELSE future[f].value
            IN  /\ results' = Append(results, result)
                /\ LOCK' = "main"
                /\ UNCHANGED <<phase, raising>>
    /\ UNCHANGED <<args, base_params, base_cookies, base_headers,
                   exit_code, names_and_sessions, future_to_name, submitted,
                   pc, attempt, last_exc, future, trace, resp_status,
                   transport_failed, stdout, files, disk, interrupted,
                   headers, cookies>>

\* The body of `with LOCK:`: the line of the result just appended is printed
\* (its name field is the name of the future) and the lock is released.
PrintLine ==
    /\ phase = "pool"
    /\ LOCK = "main"
    /\ stdout' = Append(stdout, ConsoleLine(results[Len(results)].name,
                                            results[Len(results)]))
    /\ LOCK' = "free"
    /\ UNCHANGED <<args, base_params, base_cookies, base_headers,
                   phase, raising, exit_code, names_and_sessions,
                   future_to_name, submitted, pc, attempt, last_exc, future,
                   trace, resp_status, transport_failed, yielded, results,
                   files, disk, interrupted, headers, cookies>>

AllFinished == \A f \in Futures : pc[f] = "finished"

\* json.dumps(item, ensure_ascii=False) + "\n": one line of text per record
JsonLine(item) == <<[json |-> item], "\n">>

OutputReversed(fs) ==
    IF args.output # None
    THEN WriteFile(fs, <<args.output>>,
                   [i \in 1..Len(results) |-> JsonLine(results[Len(results) + 1 - i])])
    ELSE fs

\* open(args.output, "w") and one line per item of results
OutputAfterRun(fs) ==
    IF args.output # None
    THEN WriteFile(fs, <<args.output>>, [i \in 1..Len(results) |-> JsonLine(results[i])])
    ELSE fs

\* The as_completed loop is exhausted: the pool is shut down, the aggregate
\* output is written and main returns 0.
Finish ==
    /\ phase = "pool"
    /\ LOCK = "free"
    /\ AllSubmitted
    /\ yielded = DOMAIN future_to_name
    /\ AllFinished
    /\ phase' = "done"
    /\ exit_code' = <<0>>
    /\ files' = OutputAfterRun(files)
    /\ UNCHANGED <<args, base_params, base_cookies, base_headers,
                   raising, names_and_sessions, future_to_name, submitted,
                   pc, attempt, last_exc, future, trace, resp_status,
                   transport_failed, yielded, results, stdout, disk,
                   interrupted,
                   headers, cookies, LOCK>>

\* KeyboardInterrupt is raised in the main thread: before the pool exists main
\* returns at once, inside the with-block the pool is shut down first.
Interrupt ==
    /\ phase \in {"start", "pool"}
    /\ interrupted' = TRUE
    /\ LOCK' = "free"
    /\ IF phase = "start"
       THEN /\ phase' = "done"
            /\ exit_code' = <<ExitCodeFor(KeyboardInterrupt)>>
            /\ stdout' = Append(stdout, ExitLine(KeyboardInterrupt))
            /\ UNCHANGED raising
       ELSE /\ phase' = "shutdown"
            /\ raising' = KeyboardInterrupt
            /\ UNCHANGED <<exit_code, stdout>>
    /\ UNCHANGED <<args, base_params, base_cookies, base_headers,
                   names_and_sessions, future_to_name, submitted, pc,
                   attempt, last_exc, future, trace, resp_status,
                   transport_failed, yielded, results, files, disk,
                   headers, cookies>>

FilesOnAbortFlushed(fs) == OutputAfterRun(fs)

\* The files when an exception leaves the with-block: the statements after
\* the block, the write of args.output among them, are not executed
FilesOnAbort(fs) == fs

\* ThreadPoolExecutor.__exit__ with an exception in flight: shutdown(wait=True)
\* returns once every submitted work item has run, then main handles the
\* exception.
PoolExit ==
    /\ phase = "shutdown"
    /\ AllFinished
    /\ phase' = "done"
    /\ exit_code' = <<ExitCodeFor(raising)>>
    /\ stdout' = Append(stdout, ExitLine(raising))
    /\ files' = FilesOnAbort(files)
    /\ UNCHANGED <<args, base_params, base_cookies, base_headers,
                   raising, names_and_sessions, future_to_name, submitted,
                   pc, attempt, last_exc, future, trace, resp_status,
                   transport_failed, yielded, results, disk,
                   interrupted,
                   headers, cookies, LOCK>>

WorkerStep ==
    \/ \E f \in Futures : StartTask(f)
    \/ \E f \in Futures : TaskFaults(f)
    \/ \E f \in Futures : BackoffWakes(f)
    \/ \E f \in Futures : PacingWakes(f)
    \/ \E f \in Futures : TransportFails(f)
    \/ \E f \in Futures, status \in Statuses : TransportResponds(f, status)

MainStep ==
    \/ Prepare
    \/ Submit
    \/ \E f \in Futures : Collect(f)
    \/ Finish

\* An exception leaving the with-block: the KeyboardInterrupt and its handling
InterruptStep ==
    \/ Interrupt
    \/ PoolExit

Next == WorkerStep \/ MainStep \/ InterruptStep

Spec == Init /\ [][Next]_vars

\* The run without an external interrupt, every thread being scheduled and
\* every sleep and transport call returning.
NextRun == WorkerStep \/ MainStep

LiveSpec == Init /\ [][NextRun]_vars /\ WF_vars(NextRun)

\* The same program over the wide range of request options and names
WideSpec == WideInit /\ [][Next]_vars

\* Two workers over a session file of three tokens, one retry, both sleeps
LockArgs == RunArgs(MaxConc, 1, [backoff_ms |-> BackoffMs, delay_ms |-> DelayMs,
                                 save_dir |-> None, save_body |-> FALSE,
                                 output |-> None], SessionPath)

LockInit ==
    /\ args = LockArgs
    /\ files = [p \in {<<SessionPath>>} |-> SessionFileOf(MaxLines)]
    /\ disk \in DiskConditions(args)
    /\ Started

\* The as_completed loop with the console lock taken and released in steps of
\* their own
LockNext ==
    \/ WorkerStep
    \/ Prepare
    \/ Submit
    \/ \E f \in Futures : Receive(f)
    \/ PrintLine
    \/ Finish
    \/ InterruptStep

LockSpec == LockInit /\ [][LockNext]_vars

\* ---- properties ----

NumSends(tr) == Cardinality({i \in DOMAIN tr : tr[i].ev = "send"})

Done(f) == pc[f] = "finished"

Range(seq) == {seq[i] : i \in DOMAIN seq}

\* C1: the number of targets whose task is sleeping or in a transport call
\* never exceeds the configured concurrency; every other submitted target is
\* either still queued or has finished.
C1_BoundedConcurrency ==
    /\ Cardinality({f \in Futures : pc[f] \in {"backoff", "pacing", "transport"}})
           <= args.concurrency
    /\ \A f \in Futures : pc[f] \in {"queued", "backoff", "pacing", "transport", "finished"}

C1_Witness ==
    /\ args.concurrency = 2
    /\ Cardinality({f \in Futures : pc[f] \in {"backoff", "pacing", "transport"}}) = 2
    /\ \E f \in Futures : pc[f] = "queued"

CountName(seq, n) == Cardinality({i \in DOMAIN seq : seq[i].name = n})

OneOutcomePerTarget ==
    /\ Len(results) = Len(names_and_sessions)
    /\ \A t \in Range(names_and_sessions) :
          CountName(results, t.name) = CountName(names_and_sessions, t.name)

\* C2: once the pool runs, the run eventually finishes with exactly one Outcome
\* per target in the results list, targets of the same name included.
C2_EveryTargetOneOutcome ==
    (phase = "pool") ~> (phase = "done" /\ exit_code = <<0>> /\ OneOutcomePerTarget)

C2_Witness ==
    /\ phase = "done"
    /\ exit_code = <<0>>
    /\ Len(results) = 3
    /\ CountName(results, <<"a", "/", "b">>) = 2
    /\ OneOutcomePerTarget

\* C3: a finished target for which the transport returned a response has a
\* success record carrying the status of that response, and when no transport
\* call of it failed it made exactly one attempt.
C3_ResponseIsSuccess ==
    \A f \in Futures :
        (Done(f) /\ resp_status[f] # <<>>) =>
            /\ future[f] = Returned(SuccessRecord(TaskName(f), resp_status[f][1]))
            /\ ~transport_failed[f] => NumSends(trace[f]) = 1

\* C4: once the transport has returned a response for a target, no further
\* transport attempt is made for that target.
C4_ResponseEndsAttempts ==
    [][\A f \in Futures :
          resp_status[f] # <<>> => NumSends(trace'[f]) = NumSends(trace[f])]_vars

\* C5: with retries R >= 0, a task that has returned without the transport ever
\* returning a response made exactly R+1 transport attempts and returned
\* {name, error}.
C5_ExhaustedRetries ==
    \A f \in Futures :
        (args.retries >= 0 /\ Done(f) /\ future[f].kind = "result" /\ resp_status[f] = <<>>) =>
            /\ NumSends(trace[f]) = args.retries + 1
            /\ DOMAIN future[f].value = {"name", "error"}
            /\ future[f].value.name = TaskName(f)

C5_Witness ==
    /\ args.retries = 2
    /\ \E f \in Futures :
          /\ Done(f)
          /\ future[f].kind = "result"
          /\ resp_status[f] = <<>>
          /\ NumSends(trace[f]) = 3
          /\ IsError(future[f].value)

\* The send events of a trace, and for a send at position i the backoff
\* sleeps requested since the previous send.
SendsAt(tr) == {i \in DOMAIN tr : tr[i].ev = "send"}

PrevSend(tr, i) ==
    IF \E j \in SendsAt(tr) : j < i
    THEN CHOOSE j \in SendsAt(tr) : j < i /\ \A k \in SendsAt(tr) : k < i => k <= j
    ELSE 0

BackoffsBefore(tr, i) == {j \in (PrevSend(tr, i) + 1)..(i - 1) : tr[j].ev = "backoff"}

RECURSIVE Doubled(_, _)
Doubled(base, k) == IF k <= 1 THEN base ELSE 2 * Doubled(base, k - 1)

\* C6: before the first transport attempt no backoff delay is requested, and
\* before retry attempt k the backoff delay requested is backoff_base_ms *
\* 2^(k-1), a base of 0 requesting no delay.
C6_BackoffDoubles ==
    \A f \in Futures : \A i \in SendsAt(trace[f]) :
        LET k == trace[f][i].v
            B == BackoffsBefore(trace[f], i)
        IN  IF k = 0 \/ args.backoff_ms = 0
            THEN B = {}
            ELSE /\ Cardinality(B) = 1
                 /\ \A j \in B : trace[f][j].v = Doubled(args.backoff_ms, k)

C6_Witness ==
    /\ args.backoff_ms = BackoffMs
    /\ args.retries = 2
    /\ \E f \in Futures : \E i, j \in DOMAIN trace[f] :
          /\ i < j
          /\ trace[f][i] = Ev("backoff", BackoffMs)
          /\ trace[f][j] = Ev("backoff", 2 * BackoffMs)
          /\ NumSends(trace[f]) = 3

\* C7: with delay_between_ms > 0 every transport attempt, the first included,
\* directly follows a pacing sleep of delay_between_ms, which on a retry with
\* backoff comes after the backoff sleep; with delay_between_ms = 0 no pacing
\* sleep is ever requested.
C7_PacingBeforeEveryAttempt ==
    \A f \in Futures :
        IF args.delay_ms > 0
        THEN \A i \in SendsAt(trace[f]) :
                /\ i > 1
                /\ trace[f][i - 1] = Ev("pace", args.delay_ms)
                /\ (trace[f][i].v > 0 /\ args.backoff_ms > 0) =>
                       /\ i > 2
                       /\ trace[f][i - 2].ev = "backoff"
        ELSE \A i \in DOMAIN trace[f] : trace[f][i].ev # "pace"

C7_Witness ==
    /\ args.delay_ms > 0
    /\ args.backoff_ms > 0
    /\ \E f \in Futures : \E i \in SendsAt(trace[f]) :
          /\ trace[f][i].v = 1
          /\ trace[f][i - 1].ev = "pace"
          /\ trace[f][i - 2].ev = "backoff"
          /\ trace[f][1].ev = "pace"

\* C8: the error of a Failed Outcome returned by the retry loop is the message
\* of the exception raised in the last attempt (attempt number retries), not
\* that of an earlier attempt.
C8_LastFailureOnly ==
    \A f \in Futures :
        (args.retries >= 0 /\ Done(f) /\ future[f].kind = "result" /\ IsError(future[f].value)) =>
            future[f].value.error \in {TransportMsg(args.retries), SaveMsg(args.retries)}

C8_Witness ==
    /\ args.retries = 2
    /\ \E f \in Futures :
          /\ Done(f)
          /\ future[f] = Returned(ErrorRecord(TaskName(f), TransportMsg(2)))
          /\ NumSends(trace[f]) = 3

Faulted(f) == future[f].kind = "exception"

\* C9: an exception raised by the task of one target never propagates out of
\* the dispatch loop; once its future is consumed the results list holds
\* {name, error} for it, and a completed run holds one Outcome per target.
C9_FaultIsolated ==
    /\ raising.cls \in {"None", "KeyboardInterrupt"}
    /\ \A f \in yielded :
          Faulted(f) => ErrorRecord(future_to_name[f], future[f].value.message) \in Range(results)
    /\ (phase = "done" /\ exit_code = <<0>>) => OneOutcomePerTarget

C9_Witness ==
    /\ phase = "done"
    /\ exit_code = <<0>>
    /\ Len(results) >= 2
    /\ \E f, g \in yielded :
          /\ Faulted(f)
          /\ ~Faulted(g)
          /\ ErrorRecord(future_to_name[f], FaultMsg) \in Range(results)
          /\ future[g].value \in Range(results)
          /\ ~IsError(future[g].value)

\* The attempts a target has started: those that reached the transport call
\* and the one still in its sleeps.
AttemptsStarted(p, tr) == NumSends(tr) + (IF p \in {"backoff", "pacing"} THEN 1 ELSE 0)

\* C10: after a KeyboardInterrupt in the dispatching thread no target starts an
\* attempt, neither the first attempt of a queued target nor a retry of a
\* running one.
C10_InterruptHaltsStarts ==
    [][interrupted =>
          \A f \in Futures :
              AttemptsStarted(pc'[f], trace'[f]) = AttemptsStarted(pc[f], trace[f])]_vars

\* ---- properties of validation and exit codes ----

\* The part of a text between its first and its last character that is not
\* whitespace
NonBlankAt(text) == {i \in DOMAIN text : text[i] \notin Whitespace}

Least(S) == CHOOSE i \in S : \A j \in S : i <= j

Greatest(S) == CHOOSE i \in S : \A j \in S : j <= i

Trimmed(text) ==
    IF NonBlankAt(text) = {} THEN <<>>
    ELSE SubSeq(text, Least(NonBlankAt(text)), Greatest(NonBlankAt(text)))

SepAt(text, sep) == {i \in DOMAIN text : text[i] = sep}

\* Key and value of an entry that has a separator: around its first separator
KeyOf(text, sep) == Trimmed(SubSeq(text, 1, Least(SepAt(text, sep)) - 1))

ValueOf(text, sep) == Trimmed(SubSeq(text, Least(SepAt(text, sep)) + 1, Len(text)))

\* An entry that is a text without separator or with an empty key
BadEntry(item, sep) ==
    /\ item # <<>>
    /\ \/ SepAt(item[1], sep) = {}
       \/ KeyOf(item[1], sep) = <<>>

HasBadEntry(list, sep) == \E i \in DOMAIN list : BadEntry(list[i], sep)

\* The validation failures: a malformed param, cookie or header entry, both
\* body sources, inline JSON that does not parse, a missing session file
ValidationFails(a, fs) ==
    \/ HasBadEntry(a.param, "=")
    \/ HasBadEntry(a.cookie, "=")
    \/ HasBadEntry(a.header, ":")
    \/ (a.json # <<>> /\ a.data # <<>>)
    \/ (a.json # <<>> /\ a.json[1] # <<"{", "}">>)
    \/ (a.session_file # None /\ <<a.session_file>> \notin DOMAIN fs)

NoNetworkActivity ==
    /\ submitted = 0
    /\ future_to_name = <<>>
    /\ \A f \in DOMAIN trace : trace[f] = <<>>

\* C11: main returns 130 when the run was interrupted, 1 when the configuration
\* was rejected before the run (a validation failure, or a concurrency the
\* pool does not accept), and 0 for every other run, which then holds one
\* Outcome per target whatever their mix of successes and failures.
C11_ExitCodes ==
    phase = "done" =>
        IF interrupted THEN exit_code = <<130>>
        ELSE IF ValidationFails(args, files) \/ args.concurrency < 1 THEN exit_code = <<1>>
        ELSE exit_code = <<0>> /\ OneOutcomePerTarget

C11_Witness ==
    /\ phase = "done"
    /\ exit_code = <<0>>
    /\ \E i, j \in DOMAIN results : IsError(results[i]) /\ ~IsError(results[j])

\* C12: a run that ends with a validation failure has submitted no target to
\* the pool and has made no transport attempt; main has returned 1.
C12_ValidationBeforeNetwork ==
    (phase = "done" /\ ~interrupted /\ ValidationFails(args, files)) =>
        /\ NoNetworkActivity
        /\ results = <<>>
        /\ exit_code = <<1>>

C12_Witness ==
    /\ phase = "done"
    /\ ~interrupted
    /\ args.json # <<>>
    /\ args.data # <<>>
    /\ NoNetworkActivity
    /\ exit_code = <<1>>

\* The options have been parsed without an exception
OptionsParsed == phase \in {"pool", "shutdown"} \/ (phase = "done" /\ exit_code = <<0>>)

\* The entries of a list that are texts with a separator
Entries(list, sep) == {i \in DOMAIN list : list[i] # <<>> /\ SepAt(list[i][1], sep) # {}}

\* The mapping a list of entries stands for: the key of an entry is the trimmed
\* text before its first separator, its value the trimmed text after it, and a
\* key has the value of the last entry that names it.
LastWins(list, sep, result) ==
    /\ DOMAIN result = {KeyOf(list[i][1], sep) : i \in Entries(list, sep)}
    /\ \A k \in DOMAIN result :
          result[k] =
              ValueOf(list[Greatest({i \in Entries(list, sep) : KeyOf(list[i][1], sep) = k})][1],
                      sep)

\* C13: the mappings parse_key_value_pairs returns for the params and for the
\* cookies split each entry at its first "=" only, trim key and value, and map
\* a key given more than once to the value of its last entry.
C13_PairsLastWins ==
    OptionsParsed =>
        /\ LastWins(args.param, "=", base_params)
        /\ LastWins(args.cookie, "=", base_cookies)

C13_Witness ==
    /\ phase = "pool"
    /\ args.cookie = <<<<<<"a", "=", "1">>>>, <<<<"a", "=", "2">>>>>>
    /\ DOMAIN base_cookies = {<<"a">>}
    /\ base_cookies[<<"a">>] = <<"2">>
    /\ base_params[<<"a">>] = <<"2">>

\* The first malformed entry of a list that has one
FirstBad(list, sep) == list[Least({i \in DOMAIN list : BadEntry(list[i], sep)})][1]

AllTexts(list) == \A i \in DOMAIN list : list[i] # <<>>

\* main has printed the ValueError of an entry and returned 1
Rejected(out, code, what, item) ==
    /\ code = <<1>>
    /\ out # <<>>
    /\ out[Len(out)][1] = "ERROR"
    /\ out[Len(out)][2][1] = what
    /\ out[Len(out)][2][2] = item

Blank(item) == item # <<>> /\ Trimmed(item[1]) = <<>>

\* Every entry is null, blank or a well-formed pair
NullBlankOrPair(list) ==
    \A i \in DOMAIN list : list[i] = <<>> \/ Blank(list[i]) \/ ~BadEntry(list[i], "=")

AllowedChars == Letters \cup Digits \cup {"-", "_", "."}

\* The files of the save directory: <<file base, extension>>
SavedPaths == {path \in DOMAIN files : Len(path) = 2}

\* base is name with every character outside AllowedChars replaced by "_",
\* cut after MaxFileName characters
Sanitizes(base, name) ==
    /\ Len(base) = (IF Len(name) <= MaxFileName THEN Len(name) ELSE MaxFileName)
    /\ \A i \in DOMAIN base :
          base[i] = (IF name[i] \in AllowedChars THEN name[i] ELSE "_")

\* C16: the base of every file written to the save directory has at most 128
\* characters, all of them alphanumeric or "-", "_", ".", is the name of a
\* target with each other character replaced by "_", and holds no "/" or "\".
C16_SafeFileName ==
    \A path \in SavedPaths :
        /\ Len(path[1]) <= MaxFileName
        /\ \A i \in DOMAIN path[1] : path[1][i] \in AllowedChars
        /\ \A i \in DOMAIN path[1] : path[1][i] \notin {"/", "\\"}
        /\ \E t \in Range(names_and_sessions) : Sanitizes(path[1], t.name)

C16_Witness ==
    /\ args.name = Traversal
    /\ <<<<".", ".", "_", ".", ".", "_", "e", "t", "c", "_", "p", "a", "s", "s", "w", "d">>,
         ".meta.json">> \in DOMAIN files

\* The Outcome of a finished target: what its task returned, or the error
\* record of the exception its task raised
OutcomeOf(f) ==
    IF future[f].kind = "result" THEN future[f].value
    ELSE [name |-> TaskName(f), error |-> future[f].value.message]

\* C17: the results list grows only when the dispatcher receives a finished
\* target, by that target's Outcome at its end; and after a completed run with
\* an output path the aggregate file holds one line per target, the i-th line
\* being the JSON text of the i-th Outcome received.
C17_OutputInCompletionOrder ==
    /\ [][/\ \A f \in yielded' \ yielded : results' = Append(results, OutcomeOf(f))
          /\ yielded' = yielded => results' = results]_vars
    /\ []((phase = "done" /\ exit_code = <<0>> /\ args.output # None) =>
            /\ <<args.output>> \in DOMAIN files
            /\ Len(files[<<args.output>>]) = Len(names_and_sessions)
            /\ Len(files[<<args.output>>]) = Len(results)
            /\ \A i \in DOMAIN results : files[<<args.output>>][i] = JsonLine(results[i]))

C17_Witness ==
    /\ phase = "done"
    /\ exit_code = <<0>>
    /\ args.output # None
    /\ Len(files[<<args.output>>]) = 3
    /\ files[<<args.output>>][1] = JsonLine(OutcomeOf(3))
    /\ files[<<args.output>>][2] = JsonLine(OutcomeOf(1))
    /\ OutcomeOf(3) # OutcomeOf(1)

SuccessShape == {"name", "status", "elapsed_ms", "response_headers"}

ErrorShape == {"name", "error"}

\* C18: every Outcome of the results list has the fields of a success record
\* or those of an error record, never both status and error nor neither, and
\* its name is the name of a target, no name occurring more often than among
\* the targets.
C18_OutcomeShapes ==
    \A i \in DOMAIN results :
        /\ DOMAIN results[i] \in {SuccessShape, ErrorShape}
        /\ ("status" \in DOMAIN results[i]) # ("error" \in DOMAIN results[i])
        /\ \E t \in Range(names_and_sessions) : results[i].name = t.name
        /\ CountName(results, results[i].name) <= CountName(names_and_sessions, results[i].name)

C18_Witness ==
    /\ phase = "pool"
    /\ \E i, j \in DOMAIN results :
          /\ DOMAIN results[i] = ErrorShape
          /\ DOMAIN results[j] = SuccessShape
          /\ results[i].name # results[j].name

\* C19: with a save directory, every target that has its Outcome, success or
\* failure, has a meta file of its sanitized name, and the file holds the
\* Outcome of a target of that file name.
C19_MetaForEveryOutcome ==
    \A f \in Futures :
        (args.save_dir # None /\ args.retries >= 0 /\ Done(f) /\ future[f].kind = "result") =>
            /\ MetaPath(TaskName(f)) \in DOMAIN files
            /\ \E g \in Futures :
                  /\ Done(g)
                  /\ MetaPath(TaskName(g)) = MetaPath(TaskName(f))
                  /\ files[MetaPath(TaskName(f))] = OutcomeOf(g)

BodyPaths == {path \in SavedPaths : path[2] = ".body"}

\* C20: a body file exists only with a save directory and save-body, and only
\* under the file name of a target whose Outcome is a success: a target whose
\* Outcome is Failed has no body file, unless a succeeded target shares its
\* file name.
C20_BodyOnlyOnSuccess ==
    /\ BodyPaths # {} => (args.save_dir # None /\ args.save_body)
    /\ \A f \in Futures :
          (Done(f) /\ BodyPath(TaskName(f)) \in DOMAIN files) =>
              \E g \in Futures :
                  /\ Done(g)
                  /\ BodyPath(TaskName(g)) = BodyPath(TaskName(f))
                  /\ future[g].kind = "result"
                  /\ ~IsError(future[g].value)

\* ---- properties of the requests ----

Token(f) == names_and_sessions[f].session_value

\* dict is base with key set to token, every other key as in base
SetIn(dict, base, key, token) ==
    /\ DOMAIN dict = DOMAIN base \cup {key}
    /\ dict[key] = token
    /\ \A k \in DOMAIN base \ {key} : dict[k] = base[k]

\* What a request for a target carries under a session name: the token under
\* that name when the target has a token and the name is configured, else
\* exactly the configured entries
Carries(dict, list, sep, base, key, token) ==
    IF token # <<>> /\ key # <<>>
    THEN SetIn(dict, base, key, token) /\ LastWins(list, sep, base)
    ELSE LastWins(list, sep, dict)

\* C21: while a request for a target is in its transport call, its headers are
\* the configured headers with the session header set to the target's token,
\* and its cookies the configured cookies with the session cookie set to the
\* token; without a token or without the session name they are exactly the
\* configured ones.
C21_SessionInjection ==
    \A f \in Futures :
        pc[f] = "transport" =>
            /\ Carries(headers[f], args.header, ":", base_headers,
                       args.session_header_name, Token(f))
            /\ Carries(cookies[f], args.cookie, "=", base_cookies,
                       args.session_cookie_name, Token(f))

C21_Witness ==
    /\ args.session_header_name = <<"X">>
    /\ args.session_cookie_name = <<"a">>
    /\ \E f \in Futures :
          /\ pc[f] = "transport"
          /\ Token(f) = <<"a", "_", "b">>
          /\ base_headers[<<"X">>] = <<"1">>
          /\ headers[f][<<"X">>] = <<"a", "_", "b">>
          /\ base_cookies[<<"a">>] = <<"2">>
          /\ cookies[f][<<"a">>] = <<"a", "_", "b">>

\* ---- properties of fan-out and configuration ----

\* The lines of the session file that are not blank
NonBlankLines(lines) == {i \in DOMAIN lines : Trimmed(lines[i]) # <<>>}

\* targets holds one target per non-blank line, in the order of the file, its
\* name and its token being the trimmed line
OnePerLine(targets, lines) ==
    /\ Len(targets) = Cardinality(NonBlankLines(lines))
    /\ \A i \in NonBlankLines(lines) :
          targets[Cardinality({j \in NonBlankLines(lines) : j <= i})] =
              [name |-> Trimmed(lines[i]), session_value |-> Trimmed(lines[i])]

\* C22: once the options are parsed, the targets are: without session file, one
\* target of the configured name, "request" when none is configured, without
\* token; with a session file, one target per non-blank line in file order
\* with name = token = the trimmed line.  A completed run has as many Outcomes
\* as targets, none when every line is blank.
C22_FanOut ==
    OptionsParsed =>
        /\ IF args.session_file = None
           THEN /\ Len(names_and_sessions) = 1
                /\ names_and_sessions[1].session_value = <<>>
                /\ names_and_sessions[1].name =
                       (IF args.name # <<>> THEN args.name
                        ELSE <<"r", "e", "q", "u", "e", "s", "t">>)
           ELSE OnePerLine(names_and_sessions, files[<<args.session_file>>])
        /\ phase = "done" => Len(results) = Len(names_and_sessions)

C22_Witness ==
    /\ phase = "done"
    /\ exit_code = <<0>>
    /\ args.session_file = SessionPath
    /\ files[<<SessionPath>>] = <<<<" ">>, <<" ", "b", " ">>>>
    /\ names_and_sessions = <<[name |-> <<"b">>, session_value |-> <<"b">>]>>
    /\ Len(results) = 1

\* C23: whenever a target has been handed to the pool, the configuration in
\* use has concurrency >= 1, retries >= 0 and at most one body source: a
\* configuration that violates this never reaches dispatch.
C23_ConfigInvariant ==
    submitted > 0 =>
        /\ args.concurrency >= 1
        /\ args.retries >= 0
        /\ ~(args.json # <<>> /\ args.data # <<>>)

\* C24: the console lock is held by the main thread only, and only between
\* receiving a result and printing its line; a worker that sleeps or is in a
\* transport call can always take its next step, whoever holds the lock.
C24_LockOnlyGuardsPrinting ==
    /\ LOCK \in {"free", "main"}
    /\ LOCK = "main" => phase = "pool" /\ Len(results) = Len(stdout) + 1
    /\ \A f \in Futures :
          /\ pc[f] = "backoff" => ENABLED BackoffWakes(f)
          /\ pc[f] = "pacing" => ENABLED PacingWakes(f)
          /\ pc[f] = "transport" =>
                /\ ENABLED TransportFails(f)
                /\ ENABLED (\E status \in Statuses : TransportResponds(f, status))

C24_Witness ==
    /\ LOCK = "main"
    /\ \E f, g \in Futures : f # g /\ pc[f] = "transport" /\ pc[g] = "transport"
    /\ \E f \in Futures : pc[f] = "finished"

\* ---- properties of the retry loop and of shared state ----

\* The retry loop of f has returned an error record
FailedOutcome(f) == Done(f) /\ future[f].kind = "result" /\ IsError(future[f].value)

\* The counting part of C25: the attempt index and the number of transport
\* calls stay within retries + 1, a target whose loop returned made at least
\* one call, and a Failed Outcome comes after retries + 1 calls
AttemptsWithinBudget ==
    args.retries >= 0 =>
        \A f \in Futures :
            /\ attempt[f] <= args.retries + 1
            /\ NumSends(trace[f]) <= args.retries + 1
            /\ Done(f) /\ future[f].kind = "result" => NumSends(trace[f]) >= 1
            /\ FailedOutcome(f) => NumSends(trace[f]) = args.retries + 1

\* Nothing changes for a target that has its Outcome
StaysTerminal ==
    \A f \in Futures :
        Done(f) => /\ pc'[f] = pc[f]
                   /\ future'[f] = future[f]
                   /\ trace'[f] = trace[f]

\* C25: for retries >= 0 the attempt index never exceeds retries + 1, every
\* target makes between 1 and retries + 1 transport calls, a Failed Outcome is
\* produced only after retries + 1 transport calls none of which obtained a
\* response, and no attempt follows an Outcome.
C25_RetryBounds ==
    /\ [](AttemptsWithinBudget)
    /\ [](args.retries >= 0 =>
             \A f \in Futures : FailedOutcome(f) => resp_status[f] = <<>>)
    /\ [][StaysTerminal]_vars

\* The tokens of the targets other than f
OtherTokens(f) == {Token(g) : g \in Futures \ {f}} \ {Token(f), <<>>}

\* dict holds the token of f under key when f has a token and key is
\* configured, and the token of no other target under any key
OwnTokenOnly(dict, key, f) ==
    /\ Token(f) # <<>> /\ key # <<>> => key \in DOMAIN dict /\ dict[key] = Token(f)
    /\ \A k \in DOMAIN dict : dict[k] \notin OtherTokens(f)

\* C26: once parsed, the params, headers and cookies maps shared by the
\* workers never change, whatever step is taken; and whenever a target sleeps
\* or is in a transport call, the headers and cookies of its request hold its
\* own token under the session names and the token of no other target.
C26_NoInterference ==
    /\ [][phase # "start" =>
             /\ base_params' = base_params
             /\ base_headers' = base_headers
             /\ base_cookies' = base_cookies]_vars
    /\ [](\A f \in Futures :
             Active(f) =>
                 /\ OwnTokenOnly(headers[f], args.session_header_name, f)
                 /\ OwnTokenOnly(cookies[f], args.session_cookie_name, f))

C26_Witness ==
    /\ args.session_header_name = <<"X">>
    /\ args.session_cookie_name = <<"b">>
    /\ \E f, g \in Futures :
          /\ pc[f] = "transport" /\ pc[g] = "transport"
          /\ Token(f) = <<"a", "/", "b">> /\ Token(g) = <<"a", "_", "b">>
          /\ headers[f][<<"X">>] = Token(f) /\ headers[g][<<"X">>] = Token(g)
          /\ cookies[f][<<"b">>] = Token(f) /\ cookies[g][<<"b">>] = Token(g)
          /\ base_headers[<<"X">>] = <<"1">>
          /\ <<"b">> \notin DOMAIN base_cookies

\* ---- properties of the files of a run ----

\* The loop of f returned a success record
Succeeded(f) == Done(f) /\ future[f].kind = "result" /\ ~IsError(future[f].value)

\* C27: targets with different names have different meta and body paths, and
\* after a completed run with a save directory the meta file of each succeeded
\* target whose name no other target has holds that target's own record.
C27_DistinctFiles ==
    args.save_dir # None =>
        /\ \A f, g \in Futures :
              TaskName(f) # TaskName(g) =>
                  /\ MetaPath(TaskName(f)) # MetaPath(TaskName(g))
                  /\ BodyPath(TaskName(f)) # BodyPath(TaskName(g))
        /\ phase = "done" /\ exit_code = <<0>> =>
              \A f \in Futures :
                  /\ Succeeded(f)
                  /\ \A g \in Futures \ {f} : TaskName(g) # TaskName(f)
                  => /\ MetaPath(TaskName(f)) \in DOMAIN files
                     /\ files[MetaPath(TaskName(f))] = future[f].value

\* The same for the targets whose file name no other target has
OwnFileKept ==
    args.save_dir # None /\ phase = "done" /\ exit_code = <<0>> =>
        \A f \in Futures :
            /\ Succeeded(f)
            /\ \A g \in Futures \ {f} : MetaPath(TaskName(g)) # MetaPath(TaskName(f))
            => /\ MetaPath(TaskName(f)) \in DOMAIN files
               /\ files[MetaPath(TaskName(f))] = future[f].value

\* The aggregate output file: absent, or its lines
OutputFile(fs) ==
    IF args.output # None /\ <<args.output>> \in DOMAIN fs
    THEN <<fs[<<args.output>>]>>
    ELSE <<>>

\* C28: the aggregate output file is created or changed only by the step that
\* ends a completed run, when every target has finished and its Outcome has
\* been received; a run that was interrupted or aborted ends with the file
\* absent or as it was before the run, whatever results it had received.
C28_OutputOnlyAtEnd ==
    /\ [][OutputFile(files') # OutputFile(files) =>
             /\ phase = "pool" /\ phase' = "done" /\ exit_code' = <<0>>
             /\ AllSubmitted /\ AllFinished
             /\ Len(results) = Len(names_and_sessions)]_vars
    /\ [](phase = "done" /\ exit_code # <<0>> =>
             OutputFile(files) \in {<<>>, <<OldOutput>>})

C28_Witness ==
    /\ phase = "done"
    /\ exit_code = <<130>>
    /\ Len(results) >= 1
    /\ OutputFile(files) = <<OldOutput>>

====
